---- MODULE Spec2Model ----
(***************************************************************************)
(* State-machine model of src/main.rs: a Monte Carlo estimator of the      *)
(* expected minimum and maximum of two uniform points.  main parses the    *)
(* arguments, parallel_simulate partitions the simulations over worker     *)
(* threads, every worker runs simulate_points_avx2, the main thread joins   *)
(* the workers, folds their partial sums and divides by the total.         *)
(*                                                                         *)
(* Floating point.  A uniform f64 is a multiple of 2^-53 in [0,1).  The    *)
(* model draws from the coarser grid {0, 1/Scale, ..., (Scale-1)/Scale}    *)
(* and stores every f64 sum as the integer numerator over Scale; the sums  *)
(* of the modelled sizes are exact in f64, so integer addition is the f64  *)
(* addition.  The final division is modelled as an F64 value that can be   *)
(* a number, an infinity or a NaN (x / 0.0).                               *)
(*                                                                         *)
(* The generator is deterministic in its seed; the model keeps the state   *)
(* it is constructed with until the first draw and the number of values    *)
(* drawn, and lets the values drawn range over the whole grid.             *)
(***************************************************************************)
EXTENDS Integers, Sequences, FiniteSets

VARIABLES
    avx2,               \* whether the CPU running the program supports AVX2
    pc,                 \* position of the main thread
    total_simulations,  \* main.rs:99, 107
    num_threads,        \* main.rs:100, 113
    chunk_size,         \* main.rs:65
    remainder,          \* main.rs:66
    i,                  \* index of the spawn closure (0..num_threads), main.rs:68-69
    simulations,        \* closure local, main.rs:70
    seed,               \* closure local, main.rs:75
    entropy,            \* thread_rng(): values drawn so far and the threads that drew
    worker,             \* per worker thread: its status and the locals of simulate_points_avx2
    j,                  \* number of handles joined, main.rs:80
    results,            \* Vec of the joined workers' results, main.rs:68-81
    k,                  \* number of results folded, main.rs:83-89
    total_result,       \* the fold's accumulator, main.rs:85-88
    estimate            \* <<>> until parallel_simulate returns, then <<expected_min, expected_max>>

vars == <<avx2, pc, total_simulations, num_threads, chunk_size, remainder, i,
          simulations, seed, entropy, worker, j, results, k, total_result, estimate>>

-----------------------------------------------------------------------------
(* Bounds of the model *)

MaxSims == 5        \* largest -s argument explored
MaxThreads == 2     \* largest -t argument explored
MaxSeed == 1        \* thread_rng().next_u64() ranges over 0..MaxSeed
Scale == 2          \* the uniform grid is {0/Scale, ..., (Scale-1)/Scale}

(* Program constants *)

DefaultSimulations == 100000000
DefaultThreads == 1
Lanes == 4

MainThread == <<"main">>
Workers == 0..(MaxThreads - 1)
Seeds == 0..MaxSeed
Uniform == 0..(Scale - 1)

-----------------------------------------------------------------------------
(* f64 arithmetic *)

F64Num(n, d) == [cls |-> "num", num |-> n, den |-> d]
F64NaN == [cls |-> "nan", num |-> 0, den |-> 1]
F64Inf == [cls |-> "inf", num |-> 0, den |-> 1]

\* x / (n as f64), x being the numerator of a sum over Scale
F64Div(x, n) ==
    IF n # 0 THEN F64Num(x, Scale * n)
    ELSE IF x = 0 THEN F64NaN ELSE F64Inf

\* a <= b on f64: false as soon as one side is a NaN
F64Le(a, b) ==
    CASE a.cls = "nan" \/ b.cls = "nan" -> FALSE
      [] a.cls = "inf" -> b.cls = "inf"
      [] b.cls = "inf" -> TRUE
      [] OTHER -> a.num * b.den <= b.num * a.den

Min(a, b) == IF a <= b THEN a ELSE b
Max(a, b) == IF a >= b THEN a ELSE b

-----------------------------------------------------------------------------
(* simulate_points_avx2 *)

SimulationResult(mn, mx) == [min_sum |-> mn, max_sum |-> mx]
SimulationResultDefault == SimulationResult(0, 0)

\* Pcg64Mcg::new(seed as u128): the multiplicative generator forces its state odd
PcgNew(s) == [state |-> IF s % 2 = 0 THEN s + 1 ELSE s, pos |-> 0]
\* rng.gen() n times: the stream position advances; the state the generator moves
\* to is not tracked (0, which no constructed generator holds)
RngGen(rng, n) == [state |-> 0, pos |-> rng.pos + n]

\* faulty variant of Iterations: rounds the batch count up
IterationsWrong(n) == (n + Lanes - 1) \div Lanes
Iterations(n) == n \div Lanes
Remainder(n) == n % Lanes

\* _mm256_set_pd(e3, e2, e1, e0): lane 0 is the last argument
SetPd(e3, e2, e1, e0) == <<e0, e1, e2, e3>>
SetZeroPd == <<0, 0, 0, 0>>
MinPd(a, b) == [l \in 1..Lanes |-> Min(a[l], b[l])]
MaxPd(a, b) == [l \in 1..Lanes |-> Max(a[l], b[l])]
AddPd(a, b) == [l \in 1..Lanes |-> a[l] + b[l]]
\* _mm256_storeu_pd into a [f64; 4], then iter().sum()
ArraySum(a) == a[1] + a[2] + a[3] + a[4]

\* faulty variant of ScalarAccumulate: min and max exchanged
ScalarAccumulateSwapped(res, point1, point2) ==
    SimulationResult(res.min_sum + Max(point1, point2),
                     res.max_sum + Min(point1, point2))
\* main.rs:57-58
ScalarAccumulate(res, point1, point2) ==
    SimulationResult(res.min_sum + Min(point1, point2),
                     res.max_sum + Max(point1, point2))

WorkerInit ==
    [status |-> "unspawned", wpc |-> "entry", simulations |-> 0, seed |-> 0,
     rng |-> [state |-> 0, pos |-> 0], iterations |-> 0, remainder |-> 0,
     it |-> 0, rm |-> 0, min_sum |-> SetZeroPd, max_sum |-> SetZeroPd,
     result |-> SimulationResultDefault]

\* The process runs: the main thread has neither returned nor panicked, and no
\* illegal-instruction signal has killed the process.
ProcessAlive == pc \notin {"done", "panicked", "killed"}

Running(w) == ProcessAlive /\ worker[w].status = "running"

AfterBatches(w) == IF w.it < w.iterations THEN "batch" ELSE "hsum"
AfterScalars(w) == IF w.rm < w.remainder THEN "scalar" ELSE "return"
\* main.rs:61: once the loops are over the routine returns and the thread ends with
\* its result; the frame is kept as it was at the return
Return(w) == IF w.wpc = "return" THEN [w EXCEPT !.status = "returned"] ELSE w

\* main.rs:16-23: the generator, the result, the loop bounds, the zeroed vectors.
\* The seed is consumed by the generator's constructor and dead afterwards.
WorkerEntry(w) ==
    /\ Running(w)
    /\ worker[w].wpc = "entry"
    /\ LET n == worker[w].simulations
           e == [worker[w] EXCEPT
                    !.rng = PcgNew(worker[w].seed),
                    !.seed = 0,
                    !.result = SimulationResultDefault,
                    !.iterations = Iterations(n),
                    !.remainder = Remainder(n),
                    !.min_sum = SetZeroPd,
                    !.max_sum = SetZeroPd]
       IN worker' = [worker EXCEPT ![w] = [e EXCEPT !.wpc = AfterBatches(e)]]
    /\ UNCHANGED <<avx2, pc, total_simulations, num_threads, chunk_size, remainder,
                   i, simulations, seed, entropy, j, results, k, total_result, estimate>>

\* main.rs:14-15, 76: the routine is compiled for AVX2 and called unchecked.  On a
\* CPU without AVX2 that is undefined behaviour: the instructions of the routine
\* either execute (the CPU decodes them) or raise SIGILL, which kills the process.
WorkerIllegalInstruction(w) ==
    /\ Running(w)
    /\ worker[w].wpc = "entry"
    /\ ~avx2
    /\ pc' = "killed"
    /\ UNCHANGED <<avx2, total_simulations, num_threads, chunk_size, remainder, i,
                   simulations, seed, entropy, worker, j, results, k, total_result,
                   estimate>>

\* main.rs:25-43: one batch of 4 pairs
WorkerBatch(w) ==
    /\ Running(w)
    /\ worker[w].wpc = "batch"
    /\ \E r1 \in Uniform, r2 \in Uniform, r3 \in Uniform, r4 \in Uniform,
          r5 \in Uniform, r6 \in Uniform, r7 \in Uniform, r8 \in Uniform :
         LET vec1 == SetPd(r1, r2, r3, r4)
             vec2 == SetPd(r5, r6, r7, r8)
             min_vec == MinPd(vec1, vec2)
             max_vec == MaxPd(vec1, vec2)
             b == [worker[w] EXCEPT
                      !.rng = RngGen(@, 8),
                      !.min_sum = AddPd(@, min_vec),
                      !.max_sum = AddPd(@, max_vec),
                      !.it = @ + 1]
         IN worker' = [worker EXCEPT ![w] = [b EXCEPT !.wpc = AfterBatches(b)]]
    /\ UNCHANGED <<avx2, pc, total_simulations, num_threads, chunk_size, remainder,
                   i, simulations, seed, entropy, j, results, k, total_result, estimate>>

\* main.rs:45-51: the horizontal sums
WorkerHSum(w) ==
    /\ Running(w)
    /\ worker[w].wpc = "hsum"
    /\ LET h == [worker[w] EXCEPT
                    !.result = SimulationResult(ArraySum(worker[w].min_sum),
                                                ArraySum(worker[w].max_sum))]
       IN worker' = [worker EXCEPT ![w] = Return([h EXCEPT !.wpc = AfterScalars(h)])]
    /\ UNCHANGED <<avx2, pc, total_simulations, num_threads, chunk_size, remainder,
                   i, simulations, seed, entropy, j, results, k, total_result, estimate>>

\* main.rs:54-59: one remaining pair
WorkerScalar(w) ==
    /\ Running(w)
    /\ worker[w].wpc = "scalar"
    /\ \E point1 \in Uniform, point2 \in Uniform :
         LET s == [worker[w] EXCEPT
                      !.rng = RngGen(@, 2),
                      !.result = ScalarAccumulate(@, point1, point2),
                      !.rm = @ + 1]
         IN worker' = [worker EXCEPT ![w] = Return([s EXCEPT !.wpc = AfterScalars(s)])]
    /\ UNCHANGED <<avx2, pc, total_simulations, num_threads, chunk_size, remainder,
                   i, simulations, seed, entropy, j, results, k, total_result, estimate>>

\* A worker thread that unwinds instead of returning: its locals are dropped and
\* its JoinHandle yields Err (main.rs:76, 80).
WorkerPanic(w) ==
    /\ Running(w)
    /\ worker' = [worker EXCEPT ![w] = [WorkerInit EXCEPT
                                           !.status = "panicked",
                                           !.wpc = "unwound",
                                           !.simulations = worker[w].simulations]]
    /\ UNCHANGED <<avx2, pc, total_simulations, num_threads, chunk_size, remainder,
                   i, simulations, seed, entropy, j, results, k, total_result, estimate>>

-----------------------------------------------------------------------------
(* parse_args, main *)

\* the argument after -t: absent, not a u64, or a u64
ThreadArgs == {<<"absent", 0>>, <<"bad", 0>>} \cup {<<"u64", n>> : n \in 0..MaxThreads}

\* main.rs:100, 111-116
ParseThreads(arg) == IF arg[1] = "u64" THEN arg[2] ELSE DefaultThreads

\* main.rs:97-126.  The -s argument is always given and numeric: the default run of
\* DefaultSimulations samples is beyond what can be enumerated.
ParseArgs ==
    /\ pc = "parse"
    /\ \E s \in 0..MaxSims, t \in ThreadArgs :
         /\ total_simulations' = s
         /\ num_threads' = ParseThreads(t)
    /\ pc' = "partition"
    /\ UNCHANGED <<avx2, chunk_size, remainder, i, simulations, seed, entropy, worker,
                   j, results, k, total_result, estimate>>

-----------------------------------------------------------------------------
(* parallel_simulate *)

\* faulty variant of Simulations: the remainder is dropped
SimulationsNoRemainder(idx, n, chunk, rem) == chunk
\* main.rs:70-74
Simulations(idx, n, chunk, rem) == IF idx = n - 1 THEN chunk + rem ELSE chunk

\* faulty variant of SeedThread: the seed is drawn inside the spawned thread
SeedThreadWorker(idx) == <<"worker", idx>>
\* main.rs:75: the closure of the first map runs on the thread that calls collect
SeedThread(idx) == MainThread

\* faulty variant of AllJoined: the last handle is never joined
AllJoinedOffByOne(joined, n) == joined = n - 1
\* main.rs:80-81: collect ends when the iterator of handles is exhausted
AllJoined(joined, n) == joined = n

\* faulty variant of UnwrapPanics: the Err of join() is swallowed
UnwrapIgnored(status) == FALSE
\* main.rs:80: join() is Err when the thread panicked, and unwrap() panics on Err
UnwrapPanics(status) == status = "panicked"

\* main.rs:65-66: integer division panics on a zero divisor
Partition ==
    /\ pc = "partition"
    /\ IF num_threads = 0
       THEN /\ pc' = "panicked"
            /\ UNCHANGED <<chunk_size, remainder>>
       ELSE /\ chunk_size' = total_simulations \div num_threads
            /\ remainder' = total_simulations % num_threads
            /\ pc' = "seed"
    /\ UNCHANGED <<avx2, total_simulations, num_threads, i, simulations, seed, entropy,
                   worker, j, results, k, total_result, estimate>>

\* main.rs:70-75
DrawSeed ==
    /\ pc = "seed"
    /\ i < num_threads
    /\ simulations' = Simulations(i, num_threads, chunk_size, remainder)
    /\ \E s \in Seeds : seed' = s
    /\ entropy' = [pos |-> entropy.pos + 1,
                   users |-> entropy.users \cup {SeedThread(i)}]
    /\ pc' = "spawn"
    /\ UNCHANGED <<avx2, total_simulations, num_threads, chunk_size, remainder, i,
                   worker, j, results, k, total_result, estimate>>

\* main.rs:76-78: the closure moves simulations and seed into the new thread
Spawn ==
    /\ pc = "spawn"
    /\ worker' = [worker EXCEPT ![i] = [WorkerInit EXCEPT
                                           !.status = "running",
                                           !.simulations = simulations,
                                           !.seed = seed]]
    /\ i' = i + 1
    /\ simulations' = 0
    /\ seed' = 0
    /\ pc' = IF i + 1 < num_threads THEN "seed" ELSE "join"
    /\ UNCHANGED <<avx2, total_simulations, num_threads, chunk_size, remainder,
                   entropy, j, results, k, total_result, estimate>>

\* main.rs:79-81: join blocks until the worker has ended
Join ==
    /\ pc = "join"
    /\ j < num_threads
    /\ worker[j].status \in {"returned", "panicked"}
    /\ IF UnwrapPanics(worker[j].status)
       THEN /\ pc' = "panicked"
            /\ UNCHANGED <<j, results>>
       ELSE /\ results' = Append(results, worker[j].result)
            /\ j' = j + 1
            /\ pc' = IF AllJoined(j + 1, num_threads) THEN "fold" ELSE "join"
    /\ UNCHANGED <<avx2, total_simulations, num_threads, chunk_size, remainder, i,
                   simulations, seed, entropy, worker, k, total_result, estimate>>

\* main.rs:83-89
Fold ==
    /\ pc = "fold"
    /\ k < Len(results)
    /\ total_result' = SimulationResult(total_result.min_sum + results[k + 1].min_sum,
                                        total_result.max_sum + results[k + 1].max_sum)
    /\ k' = k + 1
    /\ pc' = IF k + 1 < Len(results) THEN "fold" ELSE "divide"
    /\ UNCHANGED <<avx2, total_simulations, num_threads, chunk_size, remainder, i,
                   simulations, seed, entropy, worker, j, results, estimate>>

\* main.rs:91-94
Divide ==
    /\ pc = "divide"
    /\ estimate' = <<F64Div(total_result.min_sum, total_simulations),
                     F64Div(total_result.max_sum, total_simulations)>>
    /\ pc' = "done"
    /\ UNCHANGED <<avx2, total_simulations, num_threads, chunk_size, remainder, i,
                   simulations, seed, entropy, worker, j, results, k, total_result>>

-----------------------------------------------------------------------------

Init ==
    /\ avx2 \in BOOLEAN
    /\ pc = "parse"
    /\ total_simulations = DefaultSimulations
    /\ num_threads = DefaultThreads
    /\ chunk_size = 0
    /\ remainder = 0
    /\ i = 0
    /\ simulations = 0
    /\ seed = 0
    /\ entropy = [pos |-> 0, users |-> {}]
    /\ worker = [w \in Workers |-> WorkerInit]
    /\ j = 0
    /\ results = <<>>
    /\ k = 0
    /\ total_result = SimulationResultDefault
    /\ estimate = <<>>

WorkerStep(w) ==
    \/ WorkerEntry(w)
    \/ WorkerIllegalInstruction(w)
    \/ WorkerBatch(w)
    \/ WorkerHSum(w)
    \/ WorkerScalar(w)
    \/ WorkerPanic(w)

Next ==
    \/ ParseArgs
    \/ Partition
    \/ DrawSeed
    \/ Spawn
    \/ Join
    \/ Fold
    \/ Divide
    \/ \E w \in Workers : WorkerStep(w)

Spec == Init /\ [][Next]_vars

-----------------------------------------------------------------------------
(* Properties *)

Active == {w \in Workers : w < num_threads}
Spawned(w) == worker[w].status # "unspawned"

RECURSIVE AssignedTotal(_)
AssignedTotal(n) == IF n = 0 THEN 0 ELSE worker[n - 1].simulations + AssignedTotal(n - 1)

RECURSIVE SumOfMin(_)
SumOfMin(n) == IF n = 0 THEN 0 ELSE worker[n - 1].result.min_sum + SumOfMin(n - 1)

RECURSIVE SumOfMax(_)
SumOfMax(n) == IF n = 0 THEN 0 ELSE worker[n - 1].result.max_sum + SumOfMax(n - 1)

\* C1: for total_simulations > 0 and num_threads >= 1, every worker but the last is
\* assigned total_simulations / num_threads samples, the last one that plus
\* total_simulations % num_threads, and once all workers are spawned the assigned
\* counts add up to total_simulations.
PartitionExact ==
    (pc # "parse" /\ total_simulations > 0 /\ num_threads >= 1) =>
        /\ \A w \in Active :
              Spawned(w) =>
                  worker[w].simulations =
                      IF w = num_threads - 1
                      THEN (total_simulations \div num_threads)
                           + (total_simulations % num_threads)
                      ELSE total_simulations \div num_threads
        /\ (i = num_threads) => AssignedTotal(num_threads) = total_simulations

PartitionExactWitness ==
    /\ pc = "join"
    /\ num_threads = 2
    /\ total_simulations = 5
    /\ worker[0].simulations = 2
    /\ worker[1].simulations = 3

\* C2: a request for zero threads never ends in a panic (it is rejected before
\* the partitioning division is evaluated).
ZeroThreadsRejected == (num_threads = 0) => pc # "panicked"

\* C3: once a worker thread has panicked, parallel_simulate never returns an
\* estimate and never folds any partial result.
WorkerFailureIsFatal ==
    (\E w \in Workers : worker[w].status = "panicked") =>
        /\ pc \notin {"fold", "divide", "done"}
        /\ k = 0
        /\ total_result = SimulationResultDefault
        /\ estimate = <<>>

WorkerFailureIsFatalWitness ==
    /\ pc = "panicked"
    /\ num_threads = 2
    /\ j = 1
    /\ Len(results) = 1
    /\ worker[0].status = "returned"
    /\ worker[1].status = "panicked"

\* C4: the first join is attempted only when all num_threads workers are spawned,
\* and the fold starts only when every worker has been joined.
JoinBarrier ==
    /\ (pc = "join" \/ j > 0) => \A w \in Active : Spawned(w)
    /\ (pc \in {"fold", "divide", "done"} \/ k > 0 \/ total_result # SimulationResultDefault) =>
           /\ j = num_threads
           /\ Len(results) = num_threads
           /\ \A w \in Active : worker[w].status = "returned"

JoinBarrierWitness ==
    /\ pc = "fold"
    /\ k = 1
    /\ num_threads = 2
    /\ total_result.max_sum > 0

\* C5: a result returned by simulate_points_avx2 satisfies
\* 0 <= min_sum <= max_sum <= num_simulations (sums are numerators over Scale),
\* and is (0, 0) when num_simulations = 0.
SamplerBounds ==
    \A w \in Workers :
        worker[w].status = "returned" =>
            /\ 0 <= worker[w].result.min_sum
            /\ worker[w].result.min_sum <= worker[w].result.max_sum
            /\ worker[w].result.max_sum <= Scale * worker[w].simulations
            /\ (worker[w].simulations = 0 => worker[w].result = SimulationResult(0, 0))

SamplerBoundsWitness ==
    \E w \in Workers :
        /\ worker[w].status = "returned"
        /\ worker[w].simulations = 5
        /\ worker[w].result.min_sum > 0
        /\ worker[w].result.min_sum < worker[w].result.max_sum

\* C6: for num_threads > 0 the returned estimate is the workers' summed min_sum and
\* max_sum divided by total_simulations, and 0 <= expected_min <= expected_max <= 1.
EstimateInUnitInterval ==
    (pc = "done" /\ num_threads > 0) =>
        /\ estimate = <<F64Div(SumOfMin(num_threads), total_simulations),
                        F64Div(SumOfMax(num_threads), total_simulations)>>
        /\ F64Le(F64Num(0, 1), estimate[1])
        /\ F64Le(estimate[1], estimate[2])
        /\ F64Le(estimate[2], F64Num(1, 1))

\* C7: on a CPU without AVX2 no worker ever enters the vectorized routine.
ScalarFallbackWithoutAvx2 == ~avx2 => \A w \in Workers : ~Spawned(w)

\* a spawned worker that has not yet constructed its generator holds its seed
HoldsSeed(w) == worker[w].status = "running" /\ worker[w].wpc = "entry"

\* C8: two workers of a run never hold equal seeds, nor seeds from which equal
\* generators are constructed.
SeedsPairwiseDistinct ==
    \A a \in Workers, b \in Workers :
        (a # b /\ HoldsSeed(a) /\ HoldsSeed(b)) =>
            /\ worker[a].seed # worker[b].seed
            /\ PcgNew(worker[a].seed).state # PcgNew(worker[b].seed).state

\* every draw from the entropy source was made by the main thread, and a worker
\* is spawned only after the draw of its seed
SeedsDrawnByMain ==
    /\ entropy.users \subseteq {MainThread}
    /\ i <= entropy.pos
    /\ \A w \in Workers : Spawned(w) => w < entropy.pos

\* a step that changes a running worker's locals leaves the other workers, the
\* entropy source and the main thread's data alone; only the main thread, in its
\* seed step, touches the entropy source
WorkerStepIsPrivate ==
    /\ \A w \in Workers :
          (worker[w].status = "running" /\ worker'[w] # worker[w]) =>
              /\ \A v \in Workers \ {w} : worker'[v] = worker[v]
              /\ entropy' = entropy
              /\ <<results, total_result, seed, simulations>>' =
                     <<results, total_result, seed, simulations>>
    /\ (entropy' # entropy) => (pc = "seed" /\ worker' = worker)

\* C9: only the main thread draws from the entropy source, one draw at a time and
\* each worker's seed before that worker is spawned; a step of a running worker
\* changes nothing but that worker's own generator and accumulators.
NoSharedMutableState == [](SeedsDrawnByMain) /\ [][WorkerStepIsPrivate]_vars

NoSharedMutableStateWitness ==
    /\ entropy.pos = 2
    /\ entropy.users = {MainThread}
    /\ worker[0].status = "running"
    /\ worker[0].wpc = "scalar"
    /\ worker[1].status = "running"
    /\ worker[1].wpc = "scalar"

\* C10: the routine runs num_simulations / 4 batches of 8 draws, then
\* num_simulations % 4 (< 4) scalar pairs of 2 draws, so that it accumulates
\* num_simulations pairs from 2 * num_simulations draws; no scalar pair is added
\* before the batches are over and their lanes summed into the result.
SamplerCounts ==
    \A w \in Workers :
        LET f == worker[w] IN
        /\ f.status = "returned" =>
              /\ f.it = f.simulations \div 4
              /\ f.rm = f.simulations % 4
              /\ f.rm < 4
              /\ 4 * f.it + f.rm = f.simulations
              /\ f.rng.pos = 2 * f.simulations
        /\ f.status \in {"running", "returned"} => f.rng.pos = 8 * f.it + 2 * f.rm
        /\ f.wpc \in {"entry", "batch", "hsum"} => f.rm = 0
        /\ (f.wpc = "scalar" /\ f.rm = 0) =>
              /\ f.it = f.simulations \div 4
              /\ f.result = SimulationResult(ArraySum(f.min_sum), ArraySum(f.max_sum))

SamplerCountsWitness ==
    \E w \in Workers :
        /\ worker[w].status = "returned"
        /\ worker[w].simulations = 5
        /\ worker[w].it = 1
        /\ worker[w].rm = 1
        /\ worker[w].rng.pos = 10

====
